---- MODULE Spec2Model ----
(***************************************************************************)
(* Model of docs/gendoctools/common.py (Siconos documentation helpers).    *)
(*                                                                         *)
(* A Python str is a sequence of one-character strings.  A file is the     *)
(* sequence of characters stored on disk.  Every library call the source   *)
(* makes on strings (replace, find, count, strip, split, glob, ...) is     *)
(* computed character by character as CPython computes it, restricted to   *)
(* ASCII.                                                                  *)
(***************************************************************************)
EXTENDS Integers, Sequences, FiniteSets, TLC

VARIABLES
    pc,                 \* <<function being run, position in it>>
    header_name,        \* get_xml_files: file name of the header
    xml_path,           \* get_xml_files: directory listing, in scandir order
    case_sense_names,   \* get_xml_files: CASE_SENSE_NAMES flag
    fnwe,               \* get_xml_files: mangled stem
    allfiles,           \* get_xml_files: returned list
    refolded,           \* the mangling applied to the mangled stem
    conf_file,          \* parse_doxygen_config: characters of the config file
    conf,               \* parse_doxygen_config: kept, stripped lines still to process
    result,             \* parse_doxygen_config: the dictionary, key -> value
    backup,             \* parse_doxygen_config: split of the last key line, if bound
    raised,             \* the exception a call ended with, if any
    content,            \* find_and_replace_math: argument, then return value
    content0,           \* find_and_replace_math: argument as passed
    fs,                 \* the file system: path -> characters stored, or Absent
    same_fs,            \* whether the other directory is on the file system of the cwd
    original,           \* content of the processed file when the call started
    xmlfile,            \* filter_dot_in_xml_formulas: path of the file
    lines,              \* filter_dot_in_xml_formulas: text read
    newlines,           \* filter_dot_in_xml_formulas: text to write
    inoutfile,          \* replace_latex: path of the file
    latex_sources,      \* replace_latex: the dictionaries of the pickle files, in glob order
    formfiles,          \* replace_latex: dictionaries still to load
    latex_dict,         \* replace_latex: entries of the loaded dictionary still to process
    source_lines        \* replace_latex: the working list of lines

xmlvars  == <<header_name, xml_path, case_sense_names, fnwe, allfiles, refolded>>
cfgvars  == <<conf_file, conf, result, backup>>
mathvars == <<content, content0>>
envvars  == <<fs, same_fs, original>>
dotvars  == <<xmlfile, lines, newlines>>
latexvars == <<inoutfile, latex_sources, formfiles, latex_dict, source_lines>>
vars == <<pc, raised, xmlvars, cfgvars, mathvars, envvars, dotvars, latexvars>>

None == <<"None">>

-----------------------------------------------------------------------------
(* Characters and the str methods the source calls.                        *)

UpperChars == <<"A","B","C","D","E","F","G","H","I","J","K","L","M",
                "N","O","P","Q","R","S","T","U","V","W","X","Y","Z">>
LowerChars == <<"a","b","c","d","e","f","g","h","i","j","k","l","m",
                "n","o","p","q","r","s","t","u","v","w","x","y","z">>

\* str.isupper() of one character
isupper(c) == \E i \in DOMAIN UpperChars : UpperChars[i] = c

\* str.lower() of one character
lower(c) == IF isupper(c)
            THEN LowerChars[CHOOSE i \in DOMAIN UpperChars : UpperChars[i] = c]
            ELSE c

\* the ASCII characters str.strip(), str.lstrip() and str.rsplit() treat as
\* whitespace, of those a string literal here can hold
Whitespace == {" ", "\t", "\n", "\r", "\f"}

\* s[i:] with i counted from 0
From(s, i) == SubSeq(s, i + 1, Len(s))

\* s.startswith(p)
startswith(s, p) == Len(s) >= Len(p) /\ SubSeq(s, 1, Len(p)) = p

\* s.find(sub, start): index from 0 of the first occurrence at or after start, -1 if none
find(s, sub, start) ==
    LET hits == {i \in start .. (Len(s) - Len(sub)) : SubSeq(s, i + 1, i + Len(sub)) = sub}
    IN  IF hits = {} THEN 0 - 1 ELSE CHOOSE i \in hits : \A j \in hits : i <= j

\* s.replace(old, new) for a non-empty old: leftmost occurrences, not overlapping
RECURSIVE replace(_, _, _)
replace(s, old, new) ==
    IF Len(s) < Len(old) THEN s
    ELSE IF startswith(s, old)
         THEN new \o replace(From(s, Len(old)), old, new)
         ELSE <<s[1]>> \o replace(Tail(s), old, new)

\* s.count(sub) for a non-empty sub: occurrences that do not overlap
RECURSIVE count(_, _)
count(s, sub) ==
    IF Len(s) < Len(sub) THEN 0
    ELSE IF startswith(s, sub)
         THEN 1 + count(From(s, Len(sub)), sub)
         ELSE count(Tail(s), sub)

\* s.lstrip()
RECURSIVE lstrip(_)
lstrip(s) == IF s # <<>> /\ s[1] \in Whitespace THEN lstrip(Tail(s)) ELSE s

\* s.rstrip()
RECURSIVE rstrip(_)
rstrip(s) == IF s # <<>> /\ s[Len(s)] \in Whitespace
             THEN rstrip(SubSeq(s, 1, Len(s) - 1)) ELSE s

\* s.strip()
strip(s) == rstrip(lstrip(s))

\* concatenation of a sequence of strings: ''.join(parts)
RECURSIVE join(_)
join(parts) == IF parts = <<>> THEN <<>> ELSE Head(parts) \o join(Tail(parts))

-----------------------------------------------------------------------------
(* get_xml_files and replace_uppercase_letters                             *)

\* pathlib's PurePath.stem of a file name: the name without its last suffix
path_stem(name) ==
    LET dots == {i \in 1 .. Len(name) : name[i] = "."}
        last == IF dots = {} THEN 0 ELSE CHOOSE i \in dots : \A j \in dots : j <= i
    IN  IF 1 < last /\ last < Len(name) THEN SubSeq(name, 1, last - 1) ELSE name

\* replace_uppercase_letters with a dropped underscore (plausible slip)
RECURSIVE replace_uppercase_letters_lower_only(_)
replace_uppercase_letters_lower_only(filename) ==
    IF filename = <<>> THEN <<>>
    ELSE <<lower(filename[1])>> \o replace_uppercase_letters_lower_only(Tail(filename))

RECURSIVE replace_uppercase_letters(_)
replace_uppercase_letters(filename) ==
    IF filename = <<>> THEN <<>>
    ELSE LET c == filename[1]
             newc == IF isupper(c) THEN <<"_", lower(c)>> ELSE <<c>>
         IN  newc \o replace_uppercase_letters(Tail(filename))

\* fnmatch of one name against a pattern whose only wildcard is '*'
RECURSIVE fnmatch(_, _)
fnmatch(name, pat) ==
    IF pat = <<>> THEN name = <<>>
    ELSE IF pat[1] = "*"
         THEN \E k \in 0 .. Len(name) : fnmatch(From(name, k), Tail(pat))
         ELSE name # <<>> /\ name[1] = pat[1] /\ fnmatch(Tail(name), Tail(pat))

\* Path.glob(pattern) on a directory: the entries that match, in listing order
glob(dir, pat) == SelectSeq(dir, LAMBDA f : fnmatch(f, pat))

cClass  == <<"c","l","a","s","s">>
cStruct == <<"s","t","r","u","c","t">>
cXml    == <<".","x","m","l">>
c8h     == <<"_","8","h">>

\* the mangling with the two rewrites in the wrong order (plausible slip)
mangle_swapped(stem, case_sense) ==
    IF case_sense THEN replace(stem, <<"_">>, <<"_","_">>)
    ELSE replace(replace_uppercase_letters(stem), <<"_">>, <<"_","_">>)

\* the mangled stem: underscores doubled, then the case folding
mangle(stem, case_sense) ==
    LET doubled == replace(stem, <<"_">>, <<"_","_">>)
    IN  IF ~case_sense THEN replace_uppercase_letters(doubled) ELSE doubled

\* the three globs and the returned list, for a mangled stem
xml_matches(dir, stem) ==
    LET classfiles  == glob(dir, cClass \o stem \o cXml)
        structfiles == glob(dir, cStruct \o stem \o cXml)
        files8h     == glob(dir, stem \o c8h \o <<"*">> \o cXml)
    IN  classfiles \o structfiles \o files8h

(* Inputs of the get_xml_files runs.                                       *)

MaxStemPieces == 2
MaxDirEntries == 2

cTime     == <<"T","i","m","e">>
cStepping == <<"S","t","e","p","p","i","n","g">>
StemPieces == {cTime, cStepping, <<"_">>, <<"a">>}

\* all concatenations of 1 .. n pieces
RECURSIVE Concats(_, _)
Concats(pieces, n) ==
    IF n = 0 THEN {<<>>}
    ELSE LET shorter == Concats(pieces, n - 1)
         IN  shorter \cup {s \o p : s \in shorter, p \in pieces}

Stems == Concats(StemPieces, MaxStemPieces) \ {<<>>}
Headers == {s \o <<".","h">> : s \in Stems}

cTimeStepping_h == cTime \o cStepping \o <<".","h">>
class_time_stepping_xml  == cClass \o <<"_","t","i","m","e","_","s","t","e","p","p","i","n","g">> \o cXml
class_time__stepping_xml == cClass \o <<"_","t","i","m","e","_","_","s","t","e","p","p","i","n","g">> \o cXml

DirNames == {
    class_time_stepping_xml,
    class_time__stepping_xml,
    cStruct \o <<"_","t","i","m","e","_","s","t","e","p","p","i","n","g">> \o cXml,
    <<"_","t","i","m","e","_","s","t","e","p","p","i","n","g">> \o c8h \o cXml,
    <<"_","t","i","m","e","_","s","t","e","p","p","i","n","g">> \o c8h \o <<"_","s","o","u","r","c","e">> \o cXml,
    cClass \o cTime \o cStepping \o cXml,
    cClass \o <<"a","_","_","a">> \o cXml,
    <<"a","_","_","a">> \o c8h \o cXml }

\* directory listings: entries are distinct, their order is the file system's
DirListings ==
    {d \in UNION {[1 .. n -> DirNames] : n \in 0 .. MaxDirEntries} :
        \A i, j \in DOMAIN d : i # j => d[i] # d[j]}

XmlIdle == /\ header_name = None /\ xml_path = None /\ case_sense_names = None
           /\ fnwe = None /\ allfiles = None /\ refolded = None
CfgIdle == /\ conf_file = None /\ conf = None /\ result = None /\ backup = None
MathIdle == /\ content = None /\ content0 = None
EnvIdle == /\ fs = None /\ same_fs = None /\ original = None
DotIdle == /\ xmlfile = None /\ lines = None /\ newlines = None
LatexIdle == /\ inoutfile = None /\ latex_sources = None /\ formfiles = None
             /\ latex_dict = None /\ source_lines = None

InitXml ==
    /\ pc = <<"get_xml_files", "call">> /\ raised = None
    /\ header_name \in Headers
    /\ xml_path \in DirListings
    /\ case_sense_names \in BOOLEAN
    /\ fnwe = None /\ allfiles = None /\ refolded = None
    /\ CfgIdle /\ MathIdle /\ EnvIdle /\ DotIdle /\ LatexIdle

\* lines 33-70: one call of get_xml_files
get_xml_files ==
    /\ pc = <<"get_xml_files", "call">>
    /\ fnwe' = mangle(path_stem(header_name), case_sense_names)
    /\ allfiles' = xml_matches(xml_path, fnwe')
    /\ pc' = <<"get_xml_files", "done">>
    /\ UNCHANGED <<raised, header_name, xml_path, case_sense_names, refolded, cfgvars, mathvars, envvars, dotvars, latexvars>>

\* the mangling of lines 60-62 applied once more, to the stem it produced
mangle_again ==
    /\ pc = <<"get_xml_files", "done">>
    /\ refolded' = mangle(fnwe, case_sense_names)
    /\ pc' = <<"get_xml_files", "done2">>
    /\ UNCHANGED <<raised, header_name, xml_path, case_sense_names, fnwe, allfiles, cfgvars, mathvars, envvars, dotvars, latexvars>>

NextXml == get_xml_files \/ mangle_again
SpecXml == InitXml /\ [][NextXml]_vars

\* image of one character of the stem under the mangling
MangledChar(c, case_sense) ==
    IF c = "_" THEN <<"_","_">>
    ELSE IF ~case_sense /\ isupper(c) THEN <<"_", lower(c)>>
    ELSE <<c>>

MangledStem(stem, case_sense) ==
    join([i \in 1 .. Len(stem) |-> MangledChar(stem[i], case_sense)])

IsClassFile(f, m)  == f = cClass \o m \o cXml
IsStructFile(f, m) == f = cStruct \o m \o cXml
Is8hFile(f, m) ==
    /\ Len(f) >= Len(m) + 7
    /\ SubSeq(f, 1, Len(m) + 3) = m \o c8h
    /\ SubSeq(f, Len(f) - 3, Len(f)) = cXml

InList(f, list) == \E i \in DOMAIN list : list[i] = f

\* C1 (as amended): the returned list is the directory entries named
\* class<stem>.xml, then those named struct<stem>.xml, then those named
\* <stem>_8h*.xml, <stem> being the header stem with every underscore doubled
\* and, in case-insensitive mode, every uppercase letter replaced by '_' and
\* its lowercase form; for TimeStepping.h in case-insensitive mode this
\* returns class_time_stepping.xml and never class_time__stepping.xml.
C1_XmlFilesMatchMangledStem ==
    (pc[1] = "get_xml_files" /\ pc[2] # "call") =>
        LET m == MangledStem(path_stem(header_name), case_sense_names)
        IN  /\ allfiles = SelectSeq(xml_path, LAMBDA f : IsClassFile(f, m))
                          \o SelectSeq(xml_path, LAMBDA f : IsStructFile(f, m))
                          \o SelectSeq(xml_path, LAMBDA f : Is8hFile(f, m))
            /\ (header_name = cTimeStepping_h /\ ~case_sense_names) =>
                  /\ InList(class_time_stepping_xml, xml_path)
                        => InList(class_time_stepping_xml, allfiles)
                  /\ ~InList(class_time__stepping_xml, allfiles)

C1_Witness ==
    /\ pc = <<"get_xml_files", "done">>
    /\ header_name = cTimeStepping_h /\ ~case_sense_names
    /\ xml_path = <<class_time__stepping_xml, class_time_stepping_xml>>
    /\ allfiles = <<class_time_stepping_xml>>

\* C1 as stated: for TimeStepping.h in case-insensitive mode, a directory
\* that contains class_time__stepping.xml has that file returned.
C1_Original ==
    (pc = <<"get_xml_files", "done">> /\ header_name = cTimeStepping_h /\ ~case_sense_names
        /\ InList(class_time__stepping_xml, xml_path))
    => InList(class_time__stepping_xml, allfiles)

HasUpper(s) == \E i \in DOMAIN s : isupper(s[i])

\* C7 (as amended): for a header stem with uppercase letters, the case
\* folding alone leaves the mangled stem unchanged, but the whole mangling
\* applied to the mangled stem doubles each of its underscores again and so
\* never returns it unchanged.
C7_FoldIdempotentMangleNot ==
    (pc = <<"get_xml_files", "done2">> /\ ~case_sense_names /\ HasUpper(path_stem(header_name))) =>
        /\ replace_uppercase_letters(fnwe) = fnwe
        /\ refolded = join([i \in 1 .. Len(fnwe) |->
                               IF fnwe[i] = "_" THEN <<"_","_">> ELSE <<fnwe[i]>>])
        /\ refolded # fnwe

C7_Witness ==
    /\ pc = <<"get_xml_files", "done2">> /\ ~case_sense_names
    /\ header_name = cTimeStepping_h
    /\ fnwe = <<"_","t","i","m","e","_","s","t","e","p","p","i","n","g">>
    /\ refolded = <<"_","_","t","i","m","e","_","_","s","t","e","p","p","i","n","g">>

\* C7 as stated: for a header stem with uppercase letters, mangling the
\* mangled stem returns it unchanged.
C7_Original ==
    (pc = <<"get_xml_files", "done2">> /\ ~case_sense_names /\ HasUpper(path_stem(header_name)))
    => refolded = fnwe

-----------------------------------------------------------------------------
(* parse_doxygen_config                                                    *)

\* text-mode read: '\r\n' and a lone '\r' arrive as '\n' (universal newlines)
RECURSIVE universal_newlines(_)
universal_newlines(raw) ==
    IF raw = <<>> THEN <<>>
    ELSE IF raw[1] = "\r"
         THEN IF Len(raw) >= 2 /\ raw[2] = "\n"
              THEN <<"\n">> \o universal_newlines(From(raw, 2))
              ELSE <<"\n">> \o universal_newlines(Tail(raw))
         ELSE <<raw[1]>> \o universal_newlines(Tail(raw))

\* file.readlines(): the lines of the text, each with its '\n' if it has one
RECURSIVE readlines(_)
readlines(text) ==
    IF text = <<>> THEN <<>>
    ELSE LET k == find(text, <<"\n">>, 0)
         IN  IF k < 0 THEN <<text>>
             ELSE <<SubSeq(text, 1, k + 1)>> \o readlines(From(text, k + 1))

\* s.split(sep) for a one-character sep
RECURSIVE split(_, _)
split(s, sep) ==
    LET k == find(s, <<sep>>, 0)
    IN  IF k < 0 THEN <<s>>
        ELSE <<SubSeq(s, 1, k)>> \o split(From(s, k + 1), sep)

\* s.rsplit() without arguments: the whitespace-delimited tokens of s
RECURSIVE rsplit(_)
rsplit(s) ==
    LET t == lstrip(s)
        ws == {i \in 1 .. Len(t) : t[i] \in Whitespace}
        e == IF ws = {} THEN Len(t) + 1 ELSE CHOOSE i \in ws : \A j \in ws : i <= j
    IN  IF t = <<>> THEN <<>>
        ELSE <<SubSeq(t, 1, e - 1)>> \o rsplit(From(t, e - 1))

\* line 86-87 without the strip() (plausible slip)
kept_lines_unstripped(raw) ==
    SelectSeq(readlines(universal_newlines(raw)),
              LAMBDA n : ~startswith(n, <<"#">>) /\ ~startswith(n, <<"\n">>))

\* lines 84-87: the lines kept from the file, stripped
kept_lines(raw) ==
    LET all == readlines(universal_newlines(raw))
        kept == SelectSeq(all, LAMBDA n : ~startswith(n, <<"#">>) /\ ~startswith(n, <<"\n">>))
    IN  [i \in 1 .. Len(kept) |-> strip(kept[i])]

\* result[k] = v on a dictionary
dict_set(d, k, v) == [x \in (DOMAIN d) \cup {k} |-> IF x = k THEN v ELSE d[x]]

Unbound == <<"unbound">>

(* Inputs of the parse_doxygen_config runs.                                *)

MaxConfLines == 3

cOUTPUT_DIRECTORY == <<"O","U","T","P","U","T","_","D","I","R","E","C","T","O","R","Y">>
lineOutputDir == cOUTPUT_DIRECTORY \o <<" ","="," ","b","u","i","l","d","\n">>
lineContinued == <<" "," ","c","o","n","t","i","n","u","e","d","\n">>
lineTwoEquals == <<"K"," ","="," ","b","=","c","\n">>

ConfLines == {
    lineOutputDir,
    lineContinued,
    lineTwoEquals,
    <<"#"," ","x","=","1","\n">>,
    <<"\n">>,
    <<"J","=","d","\r","\n">>,
    <<" ","\t","\n">>,
    <<"="," ","x","\n">>,
    <<"K"," ","+","="," ","e">> }

ConfFiles == Concats(ConfLines, MaxConfLines)

InitCfg ==
    /\ pc = <<"parse_doxygen_config", "call">> /\ raised = None
    /\ conf_file \in ConfFiles
    /\ conf = None /\ result = None /\ backup = None
    /\ XmlIdle /\ MathIdle /\ EnvIdle /\ DotIdle /\ LatexIdle

\* lines 83-87: open the file, keep and strip its lines
parse_open ==
    /\ pc = <<"parse_doxygen_config", "call">>
    /\ conf' = kept_lines(conf_file)
    /\ result' = << >>
    /\ backup' = Unbound
    /\ pc' = <<"parse_doxygen_config", "loop">>
    /\ UNCHANGED <<raised, conf_file, xmlvars, mathvars, envvars, dotvars, latexvars>>

\* lines 89-92: a line with '='
parse_key_line ==
    /\ pc = <<"parse_doxygen_config", "loop">> /\ conf # <<>>
    /\ count(Head(conf), <<"=">>) > 0
    /\ LET res == split(Head(conf), "=")
       IN  IF rsplit(res[1]) = <<>>
           THEN /\ raised' = "IndexError" /\ pc' = <<"parse_doxygen_config", "error">>
                /\ UNCHANGED <<conf, result, backup>>
           ELSE /\ result' = dict_set(result, rsplit(res[1])[1], res[2])
                /\ backup' = res
                /\ conf' = Tail(conf)
                /\ UNCHANGED <<pc, raised>>
    /\ UNCHANGED <<conf_file, xmlvars, mathvars, envvars, dotvars, latexvars>>

\* lines 93-94: a line without '='
parse_continuation_line ==
    /\ pc = <<"parse_doxygen_config", "loop">> /\ conf # <<>>
    /\ count(Head(conf), <<"=">>) = 0
    /\ IF backup = Unbound
       THEN /\ raised' = "UnboundLocalError" /\ pc' = <<"parse_doxygen_config", "error">>
            /\ UNCHANGED <<conf, result, backup>>
       ELSE /\ LET k == rsplit(backup[1])[1]
               IN  result' = dict_set(result, k, result[k] \o Head(conf))
            /\ conf' = Tail(conf)
            /\ UNCHANGED <<pc, raised, backup>>
    /\ UNCHANGED <<conf_file, xmlvars, mathvars, envvars, dotvars, latexvars>>

\* line 95
parse_return ==
    /\ pc = <<"parse_doxygen_config", "loop">> /\ conf = <<>>
    /\ pc' = <<"parse_doxygen_config", "done">>
    /\ UNCHANGED <<raised, cfgvars, xmlvars, mathvars, envvars, dotvars, latexvars>>

NextCfg == parse_open \/ parse_key_line \/ parse_continuation_line \/ parse_return
SpecCfg == InitCfg /\ [][NextCfg]_vars

\* C2 (as amended): a continuation line is appended to the value of the most
\* recently seen key after the line has been stripped of its leading and
\* trailing whitespace, and the value itself has lost the line's trailing
\* newline: "OUTPUT_DIRECTORY = build\n  continued\n" yields
\* {"OUTPUT_DIRECTORY": " buildcontinued"}; no stored value ever holds a
\* newline and every line processed is free of surrounding whitespace.
C2_ContinuationAppendedStripped ==
    /\ (pc = <<"parse_doxygen_config", "done">> /\ conf_file = lineOutputDir \o lineContinued) =>
          /\ DOMAIN result = {cOUTPUT_DIRECTORY}
          /\ result[cOUTPUT_DIRECTORY] =
                <<" ","b","u","i","l","d","c","o","n","t","i","n","u","e","d">>
    /\ (pc[1] = "parse_doxygen_config" /\ pc[2] # "call") =>
          /\ \A k \in DOMAIN result : \A i \in DOMAIN result[k] : result[k][i] # "\n"
          /\ \A i \in DOMAIN conf : strip(conf[i]) = conf[i]

C2_Witness ==
    /\ pc = <<"parse_doxygen_config", "done">> /\ conf_file = lineOutputDir \o lineContinued
    /\ cOUTPUT_DIRECTORY \in DOMAIN result

\* C2 as stated: "OUTPUT_DIRECTORY = build\n  continued\n" yields
\* {"OUTPUT_DIRECTORY": " build  continued\n"}.
C2_Original ==
    (pc = <<"parse_doxygen_config", "done">> /\ conf_file = lineOutputDir \o lineContinued) =>
        /\ DOMAIN result = {cOUTPUT_DIRECTORY}
        /\ result[cOUTPUT_DIRECTORY] =
              <<" ","b","u","i","l","d"," "," ","c","o","n","t","i","n","u","e","d","\n">>

\* C3: for a file of one kept line that contains '=', the stored value is
\* the whole of the stripped line after its first '=', further '='
\* characters included.
C3_ValueIsAllAfterFirstEquals ==
    (pc = <<"parse_doxygen_config", "done">> /\ Len(kept_lines(conf_file)) = 1 /\ count(kept_lines(conf_file)[1], <<"=">>) > 0) =>
        LET d == kept_lines(conf_file)[1]
            eq == find(d, <<"=">>, 0)
        IN  \E k \in DOMAIN result :
                /\ k = rsplit(SubSeq(d, 1, eq))[1]
                /\ result[k] = From(d, eq + 1)

-----------------------------------------------------------------------------
(* find_and_replace_math                                                   *)

\* the grave accent (U+0060), which a TLA+ string literal cannot hold
Grave == "<grave>"

cMathRole == <<":","m","a","t","h",":",Grave>>

\* content[start : end + 1] for the first '$' and the next one (lines 183-185)
doxy_latex_of(c) ==
    LET start == find(c, <<"$">>, 0)
        end == find(c, <<"$">>, start + 1)
    IN  SubSeq(c, start + 1, end + 1)

\* line 186
rst_latex_of(doxy_latex) ==
    cMathRole \o strip(SubSeq(doxy_latex, 2, Len(doxy_latex) - 1)) \o <<Grave>>

\* lines 176-188
find_and_replace_math(c) ==
    IF count(c, <<"$">>) > 1
    THEN replace(c, doxy_latex_of(c), rst_latex_of(doxy_latex_of(c)))
    ELSE c

(* Inputs of the find_and_replace_math runs.                               *)

MaxMathLen == 6

MathChars == {"$", "x", "a", " "}
cEnergyExample ==
    <<"e","n","e","r","g","y"," ","$","E","=","m","c","^","2","$"," ",
      "c","o","n","s","e","r","v","e","d">>
MathInputs ==
    UNION {[1 .. n -> MathChars] : n \in 0 .. MaxMathLen} \cup {cEnergyExample}

InitMath ==
    /\ pc = <<"find_and_replace_math", "call">> /\ raised = None
    /\ content0 \in MathInputs
    /\ content = content0
    /\ XmlIdle /\ CfgIdle /\ EnvIdle /\ DotIdle /\ LatexIdle

call_find_and_replace_math ==
    /\ pc = <<"find_and_replace_math", "call">>
    /\ content' = find_and_replace_math(content)
    /\ pc' = <<"find_and_replace_math", "done">>
    /\ UNCHANGED <<raised, content0, xmlvars, cfgvars, envvars, dotvars, latexvars>>

NextMath == call_find_and_replace_math
SpecMath == InitMath /\ [][NextMath]_vars

Occurs(sub, s) == \E i \in 0 .. (Len(s) - Len(sub)) : SubSeq(s, i + 1, i + Len(sub)) = sub

MathPrefix(c) == SubSeq(c, 1, find(c, <<"$">>, 0))
MathRest(c) == From(c, find(c, <<"$">>, find(c, <<"$">>, 0) + 1) + 1)
MathFormula(c) ==
    SubSeq(c, find(c, <<"$">>, 0) + 2, find(c, <<"$">>, find(c, <<"$">>, 0) + 1))
MathRole(c) == cMathRole \o strip(MathFormula(c)) \o <<Grave>>

\* what line 187 does: an input with zero or one '$' is returned unchanged;
\* in an input with two or more, the text from the first '$' to the next is
\* replaced by the :math: role wrapping the stripped formula, and so is every
\* later occurrence of that same text, taken left to right without overlap,
\* whether or not it is a '$...$' pair of its own; the characters after the
\* first pair are untouched exactly when that text does not occur among them.
MathFirstPairTextReplacedEverywhere ==
    pc = <<"find_and_replace_math", "done">> =>
        IF count(content0, <<"$">>) <= 1 THEN content = content0
        ELSE LET pair == <<"$">> \o MathFormula(content0) \o <<"$">>
                 rest == MathRest(content0)
             IN  /\ content = MathPrefix(content0) \o MathRole(content0)
                                 \o replace(rest, pair, MathRole(content0))
                 /\ ~Occurs(pair, rest) <=>
                       content = MathPrefix(content0) \o MathRole(content0) \o rest
                 /\ content0 = cEnergyExample =>
                       content = <<"e","n","e","r","g","y"," ">> \o cMathRole
                                 \o <<"E","=","m","c","^","2",Grave," ",
                                      "c","o","n","s","e","r","v","e","d">>

\* C4: an input with zero or one '$' is returned unchanged; with two or more
\* '$', only the first '$...$' pair is replaced, by the :math: role wrapping
\* the stripped formula, and every character after that pair is left
\* untouched, a later pair with the same text included.
C4_OnlyFirstPairTransformed ==
    pc = <<"find_and_replace_math", "done">> =>
        IF count(content0, <<"$">>) <= 1 THEN content = content0
        ELSE content = MathPrefix(content0) \o MathRole(content0) \o MathRest(content0)

-----------------------------------------------------------------------------
(* The file system, as the two rewriting functions use it.  A path is      *)
(* <<directory, file name>>; "cwd" is the current working directory.       *)

Absent == <<"absent">>

cTmp  == <<".","t","m","p">>
cCopy == <<".","c","o","p","y">>

\* open(path, 'w'): the file exists and is empty
fs_truncate(f, path) == [f EXCEPT ![path] = <<>>]

\* the characters of text flushed so far are on disk
fs_store(f, path, text) == [f EXCEPT ![path] = text]

\* os.rename(src, dst), also the no-op it is when both name one file
fs_rename(f, src, dst) ==
    IF src = dst THEN f ELSE [f EXCEPT ![dst] = f[src], ![src] = Absent]

\* os.unlink(path)
fs_unlink(f, path) == [f EXCEPT ![path] = Absent]

\* whether os.rename between the two directories is possible (no EXDEV)
can_rename(src, dst, samefs) == src[1] = dst[1] \/ samefs

\* the proper, non-empty prefixes of text longer than what is stored
PartialWrites(stored, text) ==
    {SubSeq(text, 1, k) : k \in (Len(stored) + 1) .. (Len(text) - 1)}

-----------------------------------------------------------------------------
(* filter_dot_in_xml_formulas                                              *)

cDot == <<"d","o","t">>
cEscapedDot == <<"\\","\\">> \o cDot      \* r'\\dot'
cPlainDot   == <<"\\">> \o cDot            \* r'\dot'

\* the rewrite with both backslashes dropped (plausible slip)
dot_rewrite_no_backslash(text) == replace(text, cEscapedDot, cDot)

\* line 114
dot_rewrite(text) == replace(text, cEscapedDot, cPlainDot)

\* line 111: the temporary file, named after the stem, in the cwd
fileout_of(path) == <<"cwd", path_stem(path[2]) \o cTmp>>

(* Inputs of the filter_dot_in_xml_formulas runs.                          *)

MaxDotPieces == 4

DotPieces == {<<"\\">>, cDot, <<"x">>, <<"\r">>, <<"\n">>}
DotContents == Concats(DotPieces, MaxDotPieces)

f_xml == <<"f",".","x","m","l">>
f_tmp == <<"f">> \o cTmp
XmlFiles == {<<"cwd", f_xml>>, <<"build", f_xml>>}
DotPaths == XmlFiles \cup {<<"cwd", f_tmp>>}

InitDot ==
    /\ pc = <<"filter_dot_in_xml_formulas", "call">> /\ raised = None
    /\ xmlfile \in XmlFiles
    /\ same_fs \in (IF xmlfile[1] = "cwd" THEN {TRUE} ELSE BOOLEAN)
    /\ original \in DotContents
    /\ fs = [p \in DotPaths |-> IF p = xmlfile THEN original ELSE Absent]
    /\ lines = None /\ newlines = None
    /\ XmlIdle /\ CfgIdle /\ MathIdle /\ LatexIdle

fileout == fileout_of(xmlfile)

\* lines 112-114: read the file as text, rewrite
dot_read ==
    /\ pc = <<"filter_dot_in_xml_formulas", "call">>
    /\ lines' = universal_newlines(fs[xmlfile])
    /\ newlines' = dot_rewrite(lines')
    /\ pc' = <<"filter_dot_in_xml_formulas", "open">>
    /\ UNCHANGED <<raised, xmlfile, envvars, xmlvars, cfgvars, mathvars, latexvars>>

\* line 115: open(fileout, 'w')
dot_open_fileout ==
    /\ pc = <<"filter_dot_in_xml_formulas", "open">>
    /\ fs' = fs_truncate(fs, fileout)
    /\ pc' = <<"filter_dot_in_xml_formulas", "write">>
    /\ UNCHANGED <<raised, same_fs, original, dotvars, xmlvars, cfgvars, mathvars, latexvars>>

\* line 116: part of the text reaches the disk before the file is closed
dot_write_part ==
    /\ pc = <<"filter_dot_in_xml_formulas", "write">>
    /\ \E part \in PartialWrites(fs[fileout], newlines) : fs' = fs_store(fs, fileout, part)
    /\ UNCHANGED <<pc, raised, same_fs, original, dotvars, xmlvars, cfgvars, mathvars, latexvars>>

\* lines 115-116: the with block ends, everything written is on disk
dot_close_fileout ==
    /\ pc = <<"filter_dot_in_xml_formulas", "write">>
    /\ fs' = fs_store(fs, fileout, newlines)
    /\ pc' = <<"filter_dot_in_xml_formulas", "move">>
    /\ UNCHANGED <<raised, same_fs, original, dotvars, xmlvars, cfgvars, mathvars, latexvars>>

\* line 117: shutil.move where os.rename works
dot_move_rename ==
    /\ pc = <<"filter_dot_in_xml_formulas", "move">>
    /\ can_rename(fileout, xmlfile, same_fs)
    /\ fs' = fs_rename(fs, fileout, xmlfile)
    /\ pc' = <<"filter_dot_in_xml_formulas", "done">>
    /\ UNCHANGED <<raised, same_fs, original, dotvars, xmlvars, cfgvars, mathvars, latexvars>>

\* line 117: shutil.move across file systems copies: the target is opened for writing
dot_move_copy_open ==
    /\ pc = <<"filter_dot_in_xml_formulas", "move">>
    /\ ~can_rename(fileout, xmlfile, same_fs)
    /\ fs' = fs_truncate(fs, xmlfile)
    /\ pc' = <<"filter_dot_in_xml_formulas", "copy">>
    /\ UNCHANGED <<raised, same_fs, original, dotvars, xmlvars, cfgvars, mathvars, latexvars>>

\* line 117: part of the copy is on disk
dot_move_copy_part ==
    /\ pc = <<"filter_dot_in_xml_formulas", "copy">>
    /\ \E part \in PartialWrites(fs[xmlfile], fs[fileout]) : fs' = fs_store(fs, xmlfile, part)
    /\ UNCHANGED <<pc, raised, same_fs, original, dotvars, xmlvars, cfgvars, mathvars, latexvars>>

\* line 117: the copy is complete
dot_move_copy_close ==
    /\ pc = <<"filter_dot_in_xml_formulas", "copy">>
    /\ fs' = fs_store(fs, xmlfile, fs[fileout])
    /\ pc' = <<"filter_dot_in_xml_formulas", "unlink">>
    /\ UNCHANGED <<raised, same_fs, original, dotvars, xmlvars, cfgvars, mathvars, latexvars>>

\* line 117: shutil.move removes the source after the copy
dot_move_unlink ==
    /\ pc = <<"filter_dot_in_xml_formulas", "unlink">>
    /\ fs' = fs_unlink(fs, fileout)
    /\ pc' = <<"filter_dot_in_xml_formulas", "done">>
    /\ UNCHANGED <<raised, same_fs, original, dotvars, xmlvars, cfgvars, mathvars, latexvars>>

NextDot ==
    \/ dot_read \/ dot_open_fileout \/ dot_write_part \/ dot_close_fileout
    \/ dot_move_rename
    \/ dot_move_copy_open \/ dot_move_copy_part \/ dot_move_copy_close \/ dot_move_unlink
SpecDot == InitDot /\ [][NextDot]_vars

\* positions of text where an occurrence of sub starts
StartsOf(sub, text) ==
    {i \in 1 .. (Len(text) - Len(sub) + 1) : SubSeq(text, i, i + Len(sub) - 1) = sub}

\* text without the characters at the positions in gone
Without(text, gone) ==
    LET keep == (1 .. Len(text)) \ gone
    IN  [j \in 1 .. Cardinality(keep) |->
            text[CHOOSE i \in keep : Cardinality({k \in keep : k <= i}) = j]]

\* C5 (as amended): after filter_dot_in_xml_formulas the file holds the
\* original content as read in text mode ('\r\n' and '\r' become '\n') with
\* the first backslash of every two-backslash-dot occurrence deleted and every
\* other character unchanged and in the same order; a two-backslash-dot
\* occurrence remains exactly when the text had three backslashes before dot.
C5_DotRewriteDropsOneBackslash ==
    pc = <<"filter_dot_in_xml_formulas", "done">> =>
        LET text == universal_newlines(original)
        IN  /\ fs[xmlfile] = Without(text, StartsOf(cEscapedDot, text))
            /\ Occurs(cEscapedDot, fs[xmlfile]) <=> Occurs(<<"\\">> \o cEscapedDot, text)

C5_Witness ==
    /\ pc = <<"filter_dot_in_xml_formulas", "done">>
    /\ original = <<"x">> \o cEscapedDot
    /\ fs[xmlfile] = <<"x">> \o cPlainDot

\* C5 as stated: after filter_dot_in_xml_formulas no two-backslash-dot
\* occurrence remains, whatever the original content.
C5_Original == pc = <<"filter_dot_in_xml_formulas", "done">> => ~Occurs(cEscapedDot, fs[xmlfile])

DotTransformed == dot_rewrite(universal_newlines(original))

\* C10: at every step of filter_dot_in_xml_formulas the original path holds
\* the complete original content or the complete transformed content, and
\* once it has finished the original path holds the transformed content and
\* the temporary path no longer exists.
C10_TargetNeverHalfWritten ==
    pc[1] = "filter_dot_in_xml_formulas" =>
        /\ fs[xmlfile] \in {original, DotTransformed}
        /\ pc[2] = "done" => (fs[xmlfile] = DotTransformed /\ fs[fileout] = Absent)

\* the same holds of the runs in which the target is on the file system of
\* the cwd, where shutil.move is a rename
DotAtomicWhenRenamed ==
    (pc[1] = "filter_dot_in_xml_formulas" /\ can_rename(fileout, xmlfile, same_fs))
        => C10_TargetNeverHalfWritten

-----------------------------------------------------------------------------
(* replace_latex                                                           *)

Digits == <<"0","1","2","3","4","5","6","7","8","9">>

\* str(form) for a non-negative integer key
RECURSIVE str(_)
str(n) == IF n < 10 THEN <<Digits[n + 1]>> ELSE str(n \div 10) \o <<Digits[(n % 10) + 1]>>

cFORMULA == <<"F","O","R","M","U","L","A">>

\* the token without its closing underscore (plausible slip)
idf_of_unclosed(form) == cFORMULA \o str(form)

\* line 236
idf_of(form) == cFORMULA \o str(form) \o <<"_">>

\* line 241: every backslash doubled
escape_backslashes(latex) == replace(latex, <<"\\">>, <<"\\","\\">>)

\* the characters at which str.splitlines() ends a line, of those a string
\* literal here can hold ('\v', '\x1c' - '\x1e', '\x85', U+2028 and U+2029 end
\* a line too)
LineBoundaries == {"\n", "\r", "\f"}

\* str.splitlines(True): a line ends at a line boundary, '\r\n' being one end
RECURSIVE splitlines(_)
splitlines(text) ==
    IF text = <<>> THEN <<>>
    ELSE LET ends == {i \in 1 .. Len(text) : text[i] \in LineBoundaries}
             e == IF ends = {} THEN 0 ELSE CHOOSE i \in ends : \A j \in ends : i <= j
             last == IF e > 0 /\ text[e] = "\r" /\ e < Len(text) /\ text[e + 1] = "\n"
                     THEN e + 1 ELSE e
         IN  IF e = 0 THEN <<text>>
             ELSE <<SubSeq(text, 1, last)>> \o splitlines(From(text, last))

\* n spaces
spaces(n) == [i \in 1 .. n |-> " "]

\* textwrap.indent(text, prefix): the prefix before every line that is not blank
textwrap_indent(text, prefix) ==
    LET ls == splitlines(text)
    IN  join([i \in 1 .. Len(ls) |->
                 IF strip(ls[i]) # <<>> THEN prefix \o ls[i] ELSE ls[i]])

\* the indentation of the first formula line left out (plausible slip)
block_text_rest_only(formula, line) ==
    LET indent == Len(line) - Len(lstrip(line))
    IN  From(textwrap_indent(formula, spaces(indent)), indent)

\* lines 248-251: the text a block formula is replaced by in a line
block_text(formula, line) ==
    LET indent == Len(line) - Len(lstrip(line))
    IN  textwrap_indent(formula, spaces(indent))

\* only the first token of a line replaced (plausible slip)
substitute_line_first_only(line, idf, formula, formula_type) ==
    LET k == find(line, idf, 0)
        new == IF formula_type = "inline" THEN formula ELSE block_text(formula, line)
    IN  IF k < 0 THEN line
        ELSE SubSeq(line, 1, k) \o new \o From(line, k + Len(idf))

\* lines 245-251: one line rewritten for one formula
substitute_line(line, idf, formula, formula_type) ==
    IF formula_type = "inline"
    THEN replace(line, idf, formula)
    ELSE replace(line, idf, block_text(formula, line))

\* lines 236-253: one dictionary entry applied to the working list
substitute_form(ls, entry) ==
    LET idf == idf_of(entry.form)
        formula == escape_backslashes(entry.latex)
    IN  [i \in 1 .. Len(ls) |-> substitute_line(ls[i], idf, formula, entry.label)]

\* line 222: the temporary file, beside the file
target_of(path) == <<path[1], path_stem(path[2]) \o cCopy>>

(* Inputs of the replace_latex runs.                                       *)

MaxSourceLines == 2
MaxFormFiles == 2

srcGreat   == cFORMULA \o <<"1","_"," ","i","s"," ","g","r","e","a","t","\n">>
srcBlock   == <<" "," "," "," ">> \o cFORMULA \o <<"1","_","\n">>
srcOthers  == <<"x"," ">> \o cFORMULA \o <<"2","_"," ">> \o cFORMULA \o <<"1","1","_","\n">>
srcSpliced == <<"F","O","R","M","U">> \o cFORMULA \o <<"1","_","L","A","1","_","\n">>
srcTabbed  == <<"\t">> \o cFORMULA \o <<"2","_"," ">> \o cFORMULA \o <<"2","_","\r","\n">>
SourceLines == {srcGreat, srcBlock, srcOthers, srcSpliced, srcTabbed}
\* files of 1 .. MaxSourceLines of these lines, no line twice
SourceFiles ==
    {join(t) : t \in UNION {{u \in [1 .. n -> SourceLines] :
                                \A i, j \in 1 .. n : i # j => u[i] # u[j]} :
                            n \in 1 .. MaxSourceLines}}

Entry(form, latex, label) == [form |-> form, latex |-> latex, label |-> label]

dictInline  == << Entry(1, <<"x","^","2">>, "inline") >>
dictBlock   == << Entry(1, <<"a","\n","b">>, "block") >>
dictBlank   == << Entry(2, <<"a","\n","\n","b">>, "block") >>
dictSelf    == << Entry(1, cFORMULA \o <<"1","_">>, "inline") >>
dictFeed    == << Entry(2, <<"a","\f","b">>, "block") >>
dictEmpty   == << Entry(1, <<>>, "inline") >>
dictJoin    == << Entry(1, <<"x","F","O","R","M","U">>, "inline") >>
dictTwo     == << Entry(11, <<"\\","d">>, "block"), Entry(2, <<"F","_","1">>, "inline") >>
LatexDicts ==
    {dictInline, dictBlock, dictBlank, dictFeed, dictSelf, dictEmpty, dictJoin, dictTwo}

\* the pickle files of the directory in glob order, no two with the same content
LatexSources ==
    UNION {{s \in [1 .. n -> LatexDicts] : \A i, j \in 1 .. n : i # j => s[i] # s[j]} :
              n \in 0 .. MaxFormFiles}

m_py == <<"m",".","p","y">>
InoutFiles == {<<"build", m_py>>}
LatexPaths == InoutFiles \cup {target_of(f) : f \in InoutFiles}

InitLatex ==
    /\ pc = <<"replace_latex", "call">> /\ raised = None
    /\ inoutfile \in InoutFiles
    /\ same_fs = TRUE
    /\ original \in SourceFiles
    /\ latex_sources \in LatexSources
    /\ fs = [p \in LatexPaths |-> IF p = inoutfile THEN original ELSE Absent]
    /\ formfiles = None /\ latex_dict = None /\ source_lines = None
    /\ XmlIdle /\ CfgIdle /\ MathIdle /\ DotIdle

target == target_of(inoutfile)

\* lines 211-223: list the pickle files; shutil.copyfile opens the temporary
\* path for writing
latex_copyfile_open ==
    /\ pc = <<"replace_latex", "call">>
    /\ formfiles' = latex_sources
    /\ fs' = fs_truncate(fs, target)
    /\ pc' = <<"replace_latex", "copy">>
    /\ UNCHANGED <<raised, same_fs, original, inoutfile, latex_sources, latex_dict,
                   source_lines, xmlvars, cfgvars, mathvars, dotvars>>

\* line 223: the copy grows, part of the file is at the temporary path
latex_copyfile_part ==
    /\ pc = <<"replace_latex", "copy">>
    /\ Len(fs[target]) + 1 < Len(fs[inoutfile])
    /\ fs' = fs_store(fs, target, SubSeq(fs[inoutfile], 1, Len(fs[target]) + 1))
    /\ UNCHANGED <<pc, raised, same_fs, original, latexvars, xmlvars, cfgvars, mathvars, dotvars>>

\* line 223: the copy is complete
latex_copyfile_close ==
    /\ pc = <<"replace_latex", "copy">>
    /\ fs' = fs_store(fs, target, fs[inoutfile])
    /\ pc' = <<"replace_latex", "read">>
    /\ UNCHANGED <<raised, same_fs, original, latexvars, xmlvars, cfgvars, mathvars, dotvars>>

\* lines 225-227
latex_read ==
    /\ pc = <<"replace_latex", "read">>
    /\ source_lines' = readlines(universal_newlines(fs[inoutfile]))
    /\ pc' = <<"replace_latex", "files">>
    /\ UNCHANGED <<raised, envvars, inoutfile, latex_sources, formfiles, latex_dict,
                   xmlvars, cfgvars, mathvars, dotvars>>

\* lines 232-234: the next pickle file is loaded
latex_load ==
    /\ pc = <<"replace_latex", "files">> /\ formfiles # <<>>
    /\ latex_dict' = Head(formfiles)
    /\ formfiles' = Tail(formfiles)
    /\ pc' = <<"replace_latex", "forms">>
    /\ UNCHANGED <<raised, envvars, inoutfile, latex_sources, source_lines,
                   xmlvars, cfgvars, mathvars, dotvars>>

\* lines 235-253: the next formula of the dictionary is substituted in every line
latex_substitute ==
    /\ pc = <<"replace_latex", "forms">> /\ latex_dict # <<>>
    /\ source_lines' = substitute_form(source_lines, Head(latex_dict))
    /\ latex_dict' = Tail(latex_dict)
    /\ UNCHANGED <<pc, raised, envvars, inoutfile, latex_sources, formfiles,
                   xmlvars, cfgvars, mathvars, dotvars>>

\* line 232: the dictionary is exhausted
latex_next_file ==
    /\ pc = <<"replace_latex", "forms">> /\ latex_dict = <<>>
    /\ pc' = <<"replace_latex", "files">>
    /\ UNCHANGED <<raised, envvars, latexvars, xmlvars, cfgvars, mathvars, dotvars>>

\* line 256: open(target, 'w')
latex_open_target ==
    /\ pc = <<"replace_latex", "files">> /\ formfiles = <<>>
    /\ fs' = fs_truncate(fs, target)
    /\ pc' = <<"replace_latex", "write">>
    /\ UNCHANGED <<raised, same_fs, original, latexvars, xmlvars, cfgvars, mathvars, dotvars>>

\* lines 257-258: the file grows before it is closed; what is on disk is a
\* prefix of the text of the lines and can end inside a line
latex_write_part ==
    /\ pc = <<"replace_latex", "write">>
    /\ Len(fs[target]) + 1 < Len(join(source_lines))
    /\ fs' = fs_store(fs, target, SubSeq(join(source_lines), 1, Len(fs[target]) + 1))
    /\ UNCHANGED <<pc, raised, same_fs, original, latexvars, xmlvars, cfgvars, mathvars, dotvars>>

\* lines 256-258: the with block ends, every line is on disk
latex_close_target ==
    /\ pc = <<"replace_latex", "write">>
    /\ fs' = fs_store(fs, target, join(source_lines))
    /\ pc' = <<"replace_latex", "move">>
    /\ UNCHANGED <<raised, same_fs, original, latexvars, xmlvars, cfgvars, mathvars, dotvars>>

\* line 259: shutil.move inside one directory is a rename
latex_move ==
    /\ pc = <<"replace_latex", "move">>
    /\ can_rename(target, inoutfile, same_fs)
    /\ fs' = fs_rename(fs, target, inoutfile)
    /\ pc' = <<"replace_latex", "done">>
    /\ UNCHANGED <<raised, same_fs, original, latexvars, xmlvars, cfgvars, mathvars, dotvars>>

NextLatex ==
    \/ latex_copyfile_open \/ latex_copyfile_part \/ latex_copyfile_close
    \/ latex_read \/ latex_load \/ latex_substitute \/ latex_next_file
    \/ latex_open_target \/ latex_write_part \/ latex_close_target \/ latex_move
SpecLatex == InitLatex /\ [][NextLatex]_vars

LatexText == universal_newlines(original)
LatexTextLines == readlines(LatexText)
LoadedEntries ==
    UNION {{latex_sources[i][j] : j \in DOMAIN latex_sources[i]} : i \in DOMAIN latex_sources}
LoadedIds == {e.form : e \in LoadedEntries}
KnownIds == {1, 2, 11}

\* the placeholder token of an id, as the generated text holds it
Token(j) == cFORMULA \o str(j) \o <<"_">>

\* the lines of a formula, each '\n' dropped
FormulaLines(formula) == split(formula, "\n")

\* position i of t is where a line starts: the first one, or the one after a
\* line end ('\n', '\r', '\r\n' or a form feed)
LineStart(t, i) ==
    \/ i = 1
    \/ i > 1 /\ t[i - 1] \in {"\n", "\r", "\f"} /\ ~(t[i - 1] = "\r" /\ t[i] = "\n")

\* the line that starts at position i of t holds a character that is not
\* whitespace
LineNotBlank(t, i) ==
    \E j \in i .. Len(t) :
        /\ t[j] \notin Whitespace
        /\ \A m \in i .. (j - 1) : t[m] \notin {"\n", "\r", "\f"}

\* a text whose every line that is not blank starts with k more spaces
ExpectedBlock(formula, k) ==
    join([i \in 1 .. Len(formula) |->
             IF LineStart(formula, i) /\ LineNotBlank(formula, i)
             THEN spaces(k) \o <<formula[i]>> ELSE <<formula[i]>>])

\* one dictionary file with one block formula, one source line
OneBlockFormula ==
    /\ pc = <<"replace_latex", "done">>
    /\ Len(latex_sources) = 1 /\ Len(latex_sources[1]) = 1
    /\ latex_sources[1][1].label # "inline"
    /\ Len(LatexTextLines) = 1

\* ... whose token follows k >= 1 whitespace characters and occurs once
TokenAfterIndent ==
    /\ OneBlockFormula
    /\ Len(original) > Len(lstrip(original))
    /\ startswith(lstrip(original), idf_of(latex_sources[1][1].form))
    /\ count(original, idf_of(latex_sources[1][1].form)) = 1

\* C6 (as amended): for a formula whose label is not "inline" and a source
\* line with k leading whitespace characters, each token of the formula in
\* the line is replaced by the formula text in which every line that is not
\* blank has been given k more spaces in front, a line of the formula ending
\* at '\n', '\r', '\r\n' or a form feed; the first formula line thus
\* comes after the k whitespace characters of the source line and after k
\* spaces more (8 columns for k = 4), and only the following lines that are
\* not blank are indented by exactly k spaces.
C6_BlockFormulaIndentedInPlace ==
    /\ OneBlockFormula =>
          LET e == latex_sources[1][1]
              k == Len(LatexText) - Len(lstrip(LatexText))
          IN  fs[inoutfile] =
                  replace(LatexText, Token(e.form),
                          ExpectedBlock(escape_backslashes(e.latex), k))
    /\ (pc = <<"replace_latex", "done">> /\ original = srcBlock /\ latex_sources = <<dictBlock>>) =>
          fs[inoutfile] = spaces(8) \o <<"a","\n">> \o spaces(4) \o <<"b","\n">>

C6_Witness ==
    /\ pc = <<"replace_latex", "done">> /\ original = srcBlock /\ latex_sources = <<dictBlock>>
    /\ fs[inoutfile] = spaces(8) \o <<"a","\n">> \o spaces(4) \o <<"b","\n">>

\* C6 as stated: where the token follows k leading whitespace characters,
\* every line of the formula appears in the rewritten file indented by
\* exactly k spaces, the first formula line included.
C6_Original ==
    TokenAfterIndent =>
        LET k == Len(original) - Len(lstrip(original))
            ls == FormulaLines(escape_backslashes(latex_sources[1][1].latex))
            out == readlines(fs[inoutfile])
        IN  /\ Len(out) >= Len(ls)
            /\ \A i \in 1 .. Len(ls) :
                  /\ startswith(out[i], spaces(k) \o ls[i])
                  /\ Len(out[i]) - Len(lstrip(out[i])) >= k
                  /\ (ls[i] # <<>> /\ ls[i][1] # " ") => out[i][k + 1] = ls[i][1]

\* C8 (as amended): the rewritten file is the lines read in text mode, so
\* with '\r\n' and '\r' written back as '\n', and apart from that: a token
\* FORMULA<j>_ whose id is a key of no loaded dictionary is still in its line
\* as often as before, a line that holds no token of a loaded id is written
\* back character for character, and with zero dictionary files the file
\* holds the text as read.
C8_UnmatchedContentKept ==
    pc = <<"replace_latex", "done">> =>
        /\ fs[inoutfile] = join(source_lines)
        /\ Len(source_lines) = Len(LatexTextLines)
        /\ \A i \in DOMAIN LatexTextLines :
              /\ \A j \in KnownIds \ LoadedIds :
                    count(source_lines[i], Token(j)) >= count(LatexTextLines[i], Token(j))
              /\ (\A j \in LoadedIds : ~Occurs(Token(j), LatexTextLines[i]))
                    => source_lines[i] = LatexTextLines[i]
        /\ latex_sources = <<>> => fs[inoutfile] = LatexText

C8_Witness ==
    /\ pc = <<"replace_latex", "done">>
    /\ original = srcOthers \o srcGreat
    /\ latex_sources = <<dictInline>>
    /\ fs[inoutfile] = srcOthers \o <<"x","^","2"," ","i","s"," ","g","r","e","a","t","\n">>

\* C8 as stated: a line that holds no token of a loaded id is written back
\* character for character and with zero dictionary files the file content
\* is unchanged.
C8_Original ==
    pc = <<"replace_latex", "done">> =>
        /\ latex_sources = <<>> => fs[inoutfile] = original
        /\ \A l \in SourceLines :
              (Occurs(l, original) /\ \A j \in LoadedIds : ~Occurs(Token(j), l))
                  => Occurs(l, fs[inoutfile])

\* the texts a formula is put into a line as: its text with every backslash
\* doubled and, when it is not inline, with k spaces before every line that
\* is not blank, k being the indentation of the line
InsertedText(e, k) ==
    IF e.label = "inline" THEN escape_backslashes(e.latex)
    ELSE ExpectedBlock(escape_backslashes(e.latex), k)

\* x, put into some text, can make the token tok appear: x is empty and joins
\* what is around it, holds tok, lies inside tok, starts with an end of tok
\* or ends with a start of tok
FormsToken(x, tok) ==
    \/ x = <<>>
    \/ Occurs(tok, x)
    \/ Occurs(x, tok)
    \/ \E n \in 1 .. Len(x) :
          n <= Len(tok) /\ SubSeq(x, 1, n) = SubSeq(tok, Len(tok) - n + 1, Len(tok))
    \/ \E n \in 1 .. Len(x) :
          n <= Len(tok) /\ SubSeq(x, Len(x) - n + 1, Len(x)) = SubSeq(tok, 1, n)

\* a formula that cannot make a token of a loaded id appear, whatever the
\* indentation of the line (an indentation longer than the token adds nothing)
Harmless(e) ==
    \A j \in LoadedIds : \A k \in 0 .. Len(Token(j)) :
        ~FormsToken(InsertedText(e, k), Token(j))

\* C9 (as amended): after all dictionary files have been processed, in any
\* order, the rewritten file holds no token FORMULA<id>_ of a loaded id,
\* provided no text put in place of a token is empty, holds a token of a
\* loaded id, lies inside one, starts with an end of one or ends with a
\* start of one; formula texts such as F_1 that hold 'F' or '_' without
\* that are replaced like any other, while the text FORMULA1_ for id 1, the
\* empty text and the text xFORMU can leave a token of a loaded id behind.
C9_NoLoadedTokenLeftForHarmlessFormulas ==
    /\ (pc = <<"replace_latex", "done">> /\ \A e \in LoadedEntries : Harmless(e)) =>
          \A j \in LoadedIds : ~Occurs(Token(j), fs[inoutfile])
    /\ (pc = <<"replace_latex", "done">> /\ original = srcSpliced) =>
          /\ latex_sources = <<dictJoin>> =>
                fs[inoutfile] = <<"F","O","R","M","U","x">> \o Token(1) \o <<"\n">>
          /\ latex_sources = <<dictEmpty>> => fs[inoutfile] = Token(1) \o <<"\n">>

C9_Witness ==
    /\ pc = <<"replace_latex", "done">>
    /\ original = srcTabbed \o srcGreat
    /\ latex_sources = <<dictTwo, dictBlock>>
    /\ \A e \in LoadedEntries : Harmless(e)
    /\ fs[inoutfile] = <<"\t","F","_","1"," ","F","_","1","\n","a","\n","b",
                         " ","i","s"," ","g","r","e","a","t","\n">>

\* C9 as stated: after all dictionary files have been processed the
\* rewritten file holds no token of a loaded id, whatever the formula texts.
C9_Original ==
    pc = <<"replace_latex", "done">> => \A j \in LoadedIds : ~Occurs(Token(j), fs[inoutfile])

\* replace_latex leaves the original content at the original path until the
\* final rename, after which the temporary path is gone
LatexTargetNeverHalfWritten ==
    pc[1] = "replace_latex" =>
        /\ pc[2] # "done" => fs[inoutfile] = original
        /\ pc[2] = "done" => (fs[inoutfile] = join(source_lines) /\ fs[target] = Absent)

-----------------------------------------------------------------------------
(* All the modelled functions together.                                    *)

Init == InitXml \/ InitCfg \/ InitMath \/ InitDot \/ InitLatex
Next == NextXml \/ NextCfg \/ NextMath \/ NextDot \/ NextLatex
Spec == Init /\ [][Next]_vars

====
